---------------------------- MODULE Spec2Model ----------------------------
(***************************************************************************)
(* NMEA 0183 encoding utilities (nmea.js) and the APB and RMB sentence     *)
(* builders of signalk-to-nmea0183, as a state machine: the environment    *)
(* sets process.env.NMEA_TALKER and calls one function at a time; a call   *)
(* runs to its return value, to an exception, or (the while loops of       *)
(* radToDeg360) forever.                                                   *)
(*                                                                         *)
(* Representation.  A JavaScript string is a sequence of one-character     *)
(* strings.  A JavaScript value is a record tagged by k:                   *)
(*   undefined, null, string (s), array (a), throw (e), and the numbers:   *)
(*   number (v: an exact integer count of the unit of the field it is in), *)
(*   NaN, +Infinity, -Infinity, and huge (sign sg): a FINITE double of     *)
(*   magnitude >= 2^63, for which x + 360 and x - 360 round back to x.     *)
(* Units: metres for distances, metres per second for speed, 1/DegDen      *)
(* degree for coordinates, pi/RadDen radian for angles given in radians,   *)
(* 1/DegTenth degree for angles in degrees.                                *)
(***************************************************************************)
EXTENDS Integers, Sequences, FiniteSets, TLC

VARIABLES env, op, arg, pc, deg, ret

vars == <<env, op, arg, pc, deg, ret>>

---------------------------------------------------------------------------
(* Bounds of the model *)

\* angles handed to radToDeg360 span -MaxRev .. MaxRev revolutions
MaxRev == 3
\* toSentence is called with at most MaxParts fields
MaxParts == 3

---------------------------------------------------------------------------
(* Program constants *)

MetersPerNm == 1852
KnotsNum == 194384
KnotsDen == 100000
FullCircle == 360
HalfTurnDeg == 180
MinPerDeg == 60
LatMax == 90
LonMax == 180

---------------------------------------------------------------------------
(* JavaScript values *)

Undef == [k |-> "undefined"]
Null == [k |-> "null"]
NaN == [k |-> "NaN"]
PosInf == [k |-> "+Infinity"]
NegInf == [k |-> "-Infinity"]
Str(s) == [k |-> "string", s |-> s]
Num(n) == [k |-> "number", v |-> n]
Huge(sign) == [k |-> "huge", sg |-> sign]
Arr(a) == [k |-> "array", a |-> a]
Throw(e) == [k |-> "throw", e |-> e]

\* typeof x === 'number'
IsNumber(x) == x.k \in {"number", "huge", "NaN", "+Infinity", "-Infinity"}
\* Number.isFinite(x)
IsFinite(x) == x.k \in {"number", "huge"}
\* x == null
IsNullish(x) == x.k \in {"undefined", "null"}
\* the truthiness of a string, an object or a nullish value
Truthy(x) == CASE x.k = "string" -> x.s # <<>>
               [] x.k \in {"undefined", "null"} -> FALSE
               [] OTHER -> TRUE
\* a || b
OrElse(a, b) == IF Truthy(a) THEN a ELSE b

---------------------------------------------------------------------------
(* Characters and strings *)

UpperChars == <<"A","B","C","D","E","F","G","H","I","J","K","L","M",
                "N","O","P","Q","R","S","T","U","V","W","X","Y","Z">>
LowerChars == <<"a","b","c","d","e","f","g","h","i","j","k","l","m",
                "n","o","p","q","r","s","t","u","v","w","x","y","z">>
DigitChars == <<"0","1","2","3","4","5","6","7","8","9">>
PunctChars == <<"$", "*", "+", ",", "-", ".">>
PunctCodes == <<36, 42, 43, 44, 45, 46>>

Range(f) == {f[i] : i \in DOMAIN f}
IndexIn(f, c) == CHOOSE i \in DOMAIN f : f[i] = c

\* String.prototype.charCodeAt for one character
charCode(c) ==
  CASE c \in Range(UpperChars) -> 64 + IndexIn(UpperChars, c)
    [] c \in Range(LowerChars) -> 96 + IndexIn(LowerChars, c)
    [] c \in Range(DigitChars) -> 47 + IndexIn(DigitChars, c)
    [] c \in Range(PunctChars) -> PunctCodes[IndexIn(PunctChars, c)]

\* String.prototype.toUpperCase
toUpperCase(s) ==
  [i \in DOMAIN s |-> IF s[i] \in Range(LowerChars)
                        THEN UpperChars[IndexIn(LowerChars, s[i])]
                        ELSE s[i]]

\* String.prototype.indexOf, positions counted from 1; 0 when absent
IndexOf(s, c) ==
  IF \E i \in DOMAIN s : s[i] = c
    THEN CHOOSE i \in DOMAIN s : s[i] = c /\ \A j \in 1..(i-1) : s[j] # c
    ELSE 0

\* the first n characters of s
Take(s, n) == SubSeq(s, 1, n)
\* s without its first n characters
Drop(s, n) == SubSeq(s, n + 1, Len(s))
\* String.prototype.slice(-n): the last n characters (all of s when shorter)
SliceLast(s, n) == IF n >= Len(s) THEN s ELSE SubSeq(s, Len(s) - n + 1, Len(s))

\* String.prototype.repeat
RECURSIVE Repeat(_, _)
Repeat(s, n) == IF n <= 0 THEN <<>> ELSE s \o Repeat(s, n - 1)

\* Array.prototype.join
RECURSIVE Join(_, _)
Join(parts, sep) ==
  IF parts = <<>> THEN <<>>
  ELSE IF Len(parts) = 1 THEN parts[1]
  ELSE parts[1] \o sep \o Join(Tail(parts), sep)

\* String.prototype.split on one character
RECURSIVE Split(_, _)
Split(s, c) ==
  LET i == IndexOf(s, c)
  IN IF i = 0 THEN <<s>> ELSE <<Take(s, i - 1)>> \o Split(Drop(s, i), c)

\* '' + n for a natural number n
RECURSIVE NatToString(_)
NatToString(n) ==
  IF n < 10 THEN <<DigitChars[n + 1]>>
  ELSE NatToString(n \div 10) \o <<DigitChars[(n % 10) + 1]>>

RECURSIVE Pow10(_)
Pow10(d) == IF d = 0 THEN 1 ELSE 10 * Pow10(d - 1)

\* Units of the model's exact numbers: a coordinate is a count of 1/DegDen
\* degree, an angle in degrees a count of 1/DegTenth degree, an angle in
\* radians a count of pi/RadDen radian.
DegDen == Pow10(6)
DegTenth == Pow10(1)
RadDen == HalfTurnDeg * DegTenth

RECURSIVE Gcd(_, _)
Gcd(a, b) == IF b = 0 THEN a ELSE Gcd(b, a % b)

Abs(n) == IF n < 0 THEN -n ELSE n

\* Number.prototype.toFixed(d) of the finite number num/den (den > 0): the
\* sign, the magnitude rounded to d decimals (half away from zero), never in
\* exponent notation for the magnitudes of this model (< 1e21).
toFixedRatio(num, den, d) ==
  LET g == Gcd(Pow10(d), den)
      m == Abs(num) * (Pow10(d) \div g)
      q == den \div g
      r == (2 * m + q) \div (2 * q)
      int == NatToString(r \div Pow10(d))
      fracDigits == NatToString(r % Pow10(d))
      frac == Repeat(<<"0">>, d - Len(fracDigits)) \o fracDigits
  IN (IF num < 0 THEN <<"-">> ELSE <<>>)
       \o int \o (IF d = 0 THEN <<>> ELSE <<".">> \o frac)

\* toFixed of any number value: non-finite values render as their names
toFixed(x, den, d) ==
  CASE x.k = "number" -> toFixedRatio(x.v, den, d)
    [] x.k = "NaN" -> <<"N","a","N">>
    [] x.k = "+Infinity" -> <<"I","n","f","i","n","i","t","y">>
    [] x.k = "-Infinity" -> <<"-","I","n","f","i","n","i","t","y">>

---------------------------------------------------------------------------
(* nmea.js *)

m_hex == <<"0","1","2","3","4","5","6","7","8","9","A","B","C","D","E","F">>

\* a ^ b on non-negative integers
RECURSIVE BitXor(_, _)
BitXor(a, b) ==
  IF a = 0 /\ b = 0 THEN 0
  ELSE (((a % 2) + (b % 2)) % 2) + 2 * BitXor(a \div 2, b \div 2)

\* the for loop of checksum, from the loop state <<i, cs>>
RECURSIVE checksumLoop(_, _)
checksumLoop(s, st) ==
  LET i == st[1]
      cs == st[2]
  IN IF i > Len(s) THEN cs
     ELSE IF s[i] = "*" THEN cs
     ELSE checksumLoop(s, <<i + 1, BitXor(cs, charCode(s[i]))>>)

checksum(sentenceWithoutDollar) ==
  LET cs == checksumLoop(sentenceWithoutDollar, <<1, 0>>)
  IN <<m_hex[((cs \div 16) % 16) + 1], m_hex[(cs % 16) + 1]>>

\* toSentence with the '$' taken into the checksum (slice(0, ...) for slice(1, ...))
toSentence_withDollar(parts) ==
  LET body == Join(parts, <<",">>)
      prefixed == IF body # <<>> /\ body[1] = "$" THEN body ELSE <<"$">> \o body
      starIdx == IndexOf(prefixed, "*")
      head == IF starIdx = 0 THEN prefixed ELSE Take(prefixed, starIdx - 1)
  IN head \o <<"*">> \o checksum(head)

toSentence(parts) ==
  LET body == Join(parts, <<",">>)
      prefixed == IF body # <<>> /\ body[1] = "$" THEN body ELSE <<"$">> \o body
      starIdx == IndexOf(prefixed, "*")
      checksumVal == checksum(IF starIdx > 0
                                THEN SubSeq(prefixed, 2, starIdx - 1)
                                ELSE Drop(prefixed, 1))
      head == IF starIdx = 0 THEN prefixed ELSE Take(prefixed, starIdx - 1)
  IN head \o <<"*">> \o checksumVal

\* padd(n, p, c): n a string, p a natural number, c a value
padd(n, p, c) ==
  LET pad == Repeat(IF Truthy(c) THEN c.s ELSE <<"0">>, Len(NatToString(p)))
  IN SliceLast(pad \o n, Len(pad))

\* [degrees_out, minutes, dir]; minutes is the numerator of a count of 1/DegDen minute
decimalDegreesToDegreesAndDecimalMinutes(degrees) ==
  LET dir == IF degrees < 0 THEN -1 ELSE 1
      d == IF degrees < 0 THEN degrees * (-1) ELSE degrees
  IN <<d \div DegDen, (d % DegDen) * MinPerDeg, dir>>

latitudeInvalid(inVal) ==
  \/ ~IsFinite(inVal)
  \/ inVal.k = "huge"
  \/ inVal.v < -LatMax * DegDen
  \/ inVal.v > LatMax * DegDen

toNmeaDegreesLatitude(inVal) ==
  IF latitudeInvalid(inVal) THEN Throw("Error")
  ELSE LET dm == decimalDegreesToDegreesAndDecimalMinutes(inVal.v)
       IN Str(padd(toFixedRatio(dm[1], 1, 0), 2, Undef)
              \o padd(toFixedRatio(dm[2], DegDen, 4), 7, Undef)
              \o <<",">> \o (IF dm[3] > 0 THEN <<"N">> ELSE <<"S">>))

\* the longitude test with 180 let through (> for >=)
longitudeInvalid_closed(inVal) ==
  \/ ~IsFinite(inVal)
  \/ inVal.k = "huge"
  \/ inVal.v < -LonMax * DegDen
  \/ inVal.v > LonMax * DegDen

longitudeInvalid(inVal) ==
  \/ ~IsFinite(inVal)
  \/ inVal.k = "huge"
  \/ inVal.v < -LonMax * DegDen
  \/ inVal.v >= LonMax * DegDen

toNmeaDegreesLongitude(inVal) ==
  IF longitudeInvalid(inVal) THEN Throw("Error")
  ELSE LET dm == decimalDegreesToDegreesAndDecimalMinutes(inVal.v)
       IN Str(padd(toFixedRatio(dm[1], 1, 0), 3, Undef)
              \o padd(toFixedRatio(dm[2], DegDen, 4), 7, Undef)
              \o <<",">> \o (IF dm[3] > 0 THEN <<"E">> ELSE <<"W">>))

\* (rad * 180) / Math.PI, in 1/DegTenth degree
radiansToDegrees(rad) ==
  IF rad.k = "number"
    THEN Num((rad.v * HalfTurnDeg * DegTenth) \div RadDen)
    ELSE rad

\* deg < 0 and deg >= 360 (every comparison with NaN is false)
degNegative(d) ==
  CASE d.k = "number" -> d.v < 0
    [] d.k = "huge" -> d.sg < 0
    [] d.k = "-Infinity" -> TRUE
    [] OTHER -> FALSE

degAtLeastFullCircle(d) ==
  CASE d.k = "number" -> d.v >= FullCircle * DegTenth
    [] d.k = "huge" -> d.sg > 0
    [] d.k = "+Infinity" -> TRUE
    [] OTHER -> FALSE

\* deg += 360 * turns: exact for the model's small values; a huge value (the
\* spacing of doubles there is 2048 or more), an infinite one and NaN absorb it
degPlus(d, turns) ==
  IF d.k = "number" THEN Num(d.v + turns * FullCircle * DegTenth) ELSE d

\* talker() without its last line: the upper-cased setting as it is
talker_raw(e) == toUpperCase(OrElse(e, Str(<<"G","P">>)).s)

\* talker(), reading process.env.NMEA_TALKER
talker(e) ==
  LET t == toUpperCase(OrElse(e, Str(<<"G","P">>)).s)
  IN IF t = <<"I","I">> THEN <<"I","I">> ELSE <<"G","P">>

\* the names of module.exports
NmeaExports == {"toSentence", "checksum", "toNmeaDegreesLatitude",
                "toNmeaDegreesLongitude", "radToDeg360", "talker"}

---------------------------------------------------------------------------
(* sentences/APB.js *)

\* f(xte_m, trackTrue_rad, nextTrue_rad, nextMag_rad, var_rad).  Past the
\* validation, line 56 calls nmea.mToNm, a property module.exports does not
\* define: calling undefined raises TypeError, nothing catches it, and the
\* fields of lines 57-89 are never built (the last ELSE is never taken).
apb_f(xte_m, trackTrue_rad, nextTrue_rad, nextMag_rad, var_rad) ==
  LET hasXte == IsFinite(xte_m)
      trueBearing == IF IsFinite(nextTrue_rad) THEN nextTrue_rad ELSE trackTrue_rad
  IN IF ~hasXte \/ ~IsFinite(trueBearing) THEN Undef
     ELSE IF "mToNm" \notin NmeaExports THEN Throw("TypeError")
     ELSE Throw("unreached")

---------------------------------------------------------------------------
(* sentences/RMB.js *)

\* Math.abs(x)
absValue(x) ==
  CASE x.k = "number" -> Num(Abs(x.v))
    [] x.k = "-Infinity" -> PosInf
    [] OTHER -> x

\* x >= 0
nonNegative(x) ==
  CASE x.k = "number" -> x.v >= 0
    [] x.k = "+Infinity" -> TRUE
    [] OTHER -> FALSE

rmbOriginId(input) ==
  OrElse(OrElse(input.originName, input.originIdentifier), Str(<<>>))

rmbDestId(input) ==
  OrElse(OrElse(input.nextName, input.nextIdentifier),
         Str(<<"W","A","Y","P","O","I","N","T">>))

\* line 53
rmbMissing(input) ==
  \/ IsNullish(input.xte)
  \/ ~Truthy(input.position)
  \/ IsNullish(input.bearingTrue)

\* lines 61-62: a throw of either conversion is caught at line 95
rmbPositionThrows(input) ==
  \/ toNmeaDegreesLatitude(input.position.latitude).k = "throw"
  \/ toNmeaDegreesLongitude(input.position.longitude).k = "throw"

\* lines 58-59, 64-65, 69-91, once radToDeg360 has returned brgTrueDeg
rmbSentenceParts(e, input, brgTrueDeg) ==
  LET t == talker(e)
      xteNm == absValue(input.xte)
      lOrR == IF nonNegative(input.xte) THEN <<"R">> ELSE <<"L">>
      destLatStr == toNmeaDegreesLatitude(input.position.latitude).s
      destLonStr == toNmeaDegreesLongitude(input.position.longitude).s
      rangeNm == input.distance
      vmg == input.vmg
  IN << t \o <<"R","M","B">>,
        <<"A">>,
        toFixed(xteNm, MetersPerNm, 3),
        lOrR,
        rmbOriginId(input).s,
        rmbDestId(input).s,
        Split(destLatStr, ",")[1],
        Split(destLatStr, ",")[2],
        Split(destLonStr, ",")[1],
        Split(destLonStr, ",")[2],
        IF IsNumber(rangeNm) THEN toFixed(rangeNm, MetersPerNm, 2) ELSE <<>>,
        toFixed(brgTrueDeg, DegTenth, 1),
        IF ~IsNullish(vmg)
          THEN toFixed(IF vmg.k = "number" THEN Num(vmg.v * KnotsNum) ELSE vmg,
                       KnotsDen, 2)
          ELSE <<>>,
        <<"A">> >>

---------------------------------------------------------------------------
(* Inputs *)

GP == <<"G","P">>
II == <<"I","I">>

EnvValues == {Undef, Str(GP), Str(II), Str(<<"i","i">>), Str(<<"X","X">>)}

FieldValues == { <<"G","P","R","M","B">>, <<"A">>, <<>>, <<"A","*","1","F">>,
                 <<"$","G","P">>, <<"B",",","C">> }

PartsInputs == UNION {[1..n -> FieldValues] : n \in 0..MaxParts}

Half == DegDen \div 2
Quarter == DegDen \div 4

LatitudeInputs ==
  { Num(45 * DegDen + Half), Num(-(45 * DegDen + Half)), Num(0),
    Num(5 * DegDen + Quarter), Num(9 * DegDen + 999999),
    Num(LatMax * DegDen), Num(-LatMax * DegDen),
    Num(LatMax * DegDen + 1), Num(-LatMax * DegDen - 1), Num(91 * DegDen),
    NaN, PosInf, NegInf, Huge(1), Undef }

LongitudeInputs ==
  { Num(-(122 * DegDen + Quarter)), Num(0), Num(7 * DegDen + Half),
    Num(LonMax * DegDen - 1), Num(LonMax * DegDen), Num(-LonMax * DegDen),
    Num(-LonMax * DegDen - 1), Num(45 * DegDen + Half),
    NaN, PosInf, NegInf, Huge(-1), Undef }

QuarterTurn == RadDen \div 2

\* finite angles of up to MaxRev revolutions either way, in quarter turns
FiniteAngles ==
  {Num(q * QuarterTurn) : q \in (-4 * MaxRev)..(4 * MaxRev)} \cup {Num(1), Num(-1)}

AngleInputs == FiniteAngles \cup {NaN, PosInf, NegInf, Huge(1), Huge(-1)}

Position(lat, lon) == [k |-> "object", latitude |-> lat, longitude |-> lon]

ApbInputs ==
  [ xte : {Undef, Num(100), Num(-100), NaN, PosInf},
    trackTrue : {Null, Num(QuarterTurn), NaN},
    nextTrue : {Undef, Num(QuarterTurn), PosInf},
    nextMag : {Undef, Num(QuarterTurn - 100)},
    variation : {Undef, Num(100)} ]

\* <<name, identifier>> of a waypoint
OriginIds == { <<Undef, Undef>>, <<Str(<<"O","R","I","G">>), Undef>>,
               <<Undef, Str(<<"O","1">>)>> }

NextIds == { <<Undef, Undef>>, <<Str(<<>>), Str(<<"W","1">>)>>,
             <<Str(<<"A",",","B">>), Undef>>, <<Str(<<"A","*","B">>), Undef>> }

Positions ==
  { Undef,
    Position(Num(45 * DegDen + Half), Num(-(122 * DegDen + Quarter))),
    Position(Num(91 * DegDen), Num(0)),
    Position(Num(0), Num(LonMax * DegDen)) }

RmbInputs ==
  { [ xte |-> x, originName |-> o[1], originIdentifier |-> o[2],
      nextName |-> n[1], nextIdentifier |-> n[2], position |-> p,
      distance |-> d, bearingTrue |-> b, vmg |-> v ] :
      x \in {Null, Num(100), Num(-100), Num(0), NaN},
      o \in OriginIds, n \in NextIds, p \in Positions,
      d \in {Undef, Num(MetersPerNm)},
      b \in {Undef, Num(QuarterTurn), Num(-QuarterTurn), PosInf},
      v \in {Undef, Num(1)} }

---------------------------------------------------------------------------
(* The state machine *)

Init ==
  /\ env = Undef
  /\ op = "none"
  /\ arg = Undef
  /\ pc = "idle"
  /\ deg = Undef
  /\ ret = Undef

\* how a call that returned or threw value r ends
Finish(r) ==
  /\ ret' = r
  /\ pc' = IF r.k = "throw" THEN "threw" ELSE "done"

\* the host sets or clears process.env.NMEA_TALKER between calls
SetEnv(e) ==
  /\ pc = "idle"
  /\ env' = e
  /\ UNCHANGED <<op, arg, pc, deg, ret>>

CallToSentence(parts) ==
  /\ pc = "idle"
  /\ op' = "toSentence"
  /\ arg' = Arr(parts)
  /\ Finish(Str(toSentence(parts)))
  /\ UNCHANGED <<env, deg>>

CallLatitude(inVal) ==
  /\ pc = "idle"
  /\ op' = "toNmeaDegreesLatitude"
  /\ arg' = inVal
  /\ Finish(toNmeaDegreesLatitude(inVal))
  /\ UNCHANGED <<env, deg>>

CallLongitude(inVal) ==
  /\ pc = "idle"
  /\ op' = "toNmeaDegreesLongitude"
  /\ arg' = inVal
  /\ Finish(toNmeaDegreesLongitude(inVal))
  /\ UNCHANGED <<env, deg>>

CallTalker ==
  /\ pc = "idle"
  /\ op' = "talker"
  /\ arg' = Undef
  /\ Finish(Str(talker(env)))
  /\ UNCHANGED <<env, deg>>

CallApb(input) ==
  /\ pc = "idle"
  /\ op' = "apb"
  /\ arg' = input
  /\ Finish(apb_f(input.xte, input.trackTrue, input.nextTrue,
                  input.nextMag, input.variation))
  /\ UNCHANGED <<env, deg>>

\* radToDeg360(rad), line 91; the two loops follow one test or body at a time
CallRadToDeg360(rad) ==
  /\ pc = "idle"
  /\ op' = "radToDeg360"
  /\ arg' = rad
  /\ deg' = radiansToDegrees(rad)
  /\ pc' = "while_negative"
  /\ UNCHANGED <<env, ret>>

\* rmb(app, plugin, input), lines 34-66: null for missing fields or a caught
\* throw, else into radToDeg360(brgTrue)
CallRmb(input) ==
  /\ pc = "idle"
  /\ op' = "rmb"
  /\ arg' = input
  /\ IF rmbMissing(input) \/ rmbPositionThrows(input)
       THEN /\ Finish(Null)
            /\ UNCHANGED deg
       ELSE /\ deg' = radiansToDegrees(input.bearingTrue)
            /\ pc' = "while_negative"
            /\ UNCHANGED ret
  /\ UNCHANGED env

\* line 92: while (deg < 0)
TestNegative ==
  /\ pc = "while_negative"
  /\ pc' = IF degNegative(deg) THEN "add_circle" ELSE "while_over"
  /\ UNCHANGED <<env, op, arg, deg, ret>>

\* line 92: deg += 360
AddCircle ==
  /\ pc = "add_circle"
  /\ deg' = degPlus(deg, 1)
  /\ pc' = "while_negative"
  /\ UNCHANGED <<env, op, arg, ret>>

\* line 93: while (deg >= 360)
TestOver ==
  /\ pc = "while_over"
  /\ pc' = IF degAtLeastFullCircle(deg) THEN "subtract_circle" ELSE "return_deg"
  /\ UNCHANGED <<env, op, arg, deg, ret>>

\* line 93: deg -= 360
SubtractCircle ==
  /\ pc = "subtract_circle"
  /\ deg' = degPlus(deg, -1)
  /\ pc' = "while_over"
  /\ UNCHANGED <<env, op, arg, ret>>

\* line 94, called directly
ReturnDeg ==
  /\ pc = "return_deg"
  /\ op = "radToDeg360"
  /\ Finish(deg)
  /\ UNCHANGED <<env, op, arg, deg>>

\* line 94 into rmb, lines 66-94
RmbReturn ==
  /\ pc = "return_deg"
  /\ op = "rmb"
  /\ Finish(Arr(<<toSentence(rmbSentenceParts(env, arg, deg))>>))
  /\ UNCHANGED <<env, op, arg, deg>>

\* the caller takes the result; the next call starts from scratch
Reset ==
  /\ pc \in {"done", "threw"}
  /\ op' = "none"
  /\ arg' = Undef
  /\ pc' = "idle"
  /\ deg' = Undef
  /\ ret' = Undef
  /\ UNCHANGED env

\* the steps of a running radToDeg360, and of any running call
RadRun == TestNegative \/ AddCircle \/ TestOver \/ SubtractCircle \/ ReturnDeg

Run == RadRun \/ RmbReturn

Next ==
  \/ \E e \in EnvValues : SetEnv(e)
  \/ \E parts \in PartsInputs : CallToSentence(parts)
  \/ \E v \in LatitudeInputs : CallLatitude(v)
  \/ \E v \in LongitudeInputs : CallLongitude(v)
  \/ CallTalker
  \/ \E input \in ApbInputs : CallApb(input)
  \/ \E rad \in AngleInputs : CallRadToDeg360(rad)
  \/ \E input \in RmbInputs : CallRmb(input)
  \/ Run
  \/ Reset

Spec == Init /\ [][Next]_vars

\* radToDeg360 alone, called over and over.  A call, once started, keeps
\* executing: the engine runs the function until it returns.
RadNext ==
  \/ \E rad \in AngleInputs : CallRadToDeg360(rad)
  \/ RadRun
  \/ Reset

RadFairSpec == Init /\ [][RadNext]_vars /\ WF_vars(RadRun)

---------------------------------------------------------------------------
(* Vocabulary of the properties *)

Bit(x, i) == (x \div (2^i)) % 2

\* the XOR of the character codes of s, bit by bit: bit i is the parity of
\* the number of characters that have it set
XorOfCodes(s) ==
  LET P(i) == (Cardinality({j \in DOMAIN s : Bit(charCode(s[j]), i) = 1}) % 2) * (2^i)
  IN P(0) + P(1) + P(2) + P(3) + P(4) + P(5) + P(6) + P(7)

HexDigits == {"0","1","2","3","4","5","6","7","8","9","A","B","C","D","E","F"}
HexValue(c) == IF c \in Range(DigitChars) THEN IndexIn(DigitChars, c) - 1
               ELSE 9 + IndexIn(UpperChars, c)

\* '$' body '*' HH, HH the XOR of the codes of body in two upper-case hex digits
Checksummed(s) ==
  LET star == IndexOf(s, "*")
  IN /\ Len(s) >= 4
     /\ s[1] = "$"
     /\ star > 1
     /\ Len(s) = star + 2
     /\ s[star + 1] \in HexDigits
     /\ s[star + 2] \in HexDigits
     /\ 16 * HexValue(s[star + 1]) + HexValue(s[star + 2])
          = XorOfCodes(SubSeq(s, 2, star - 1))

\* what lies between the leading '$' and the first '*' (or the end)
BodyOf(s) ==
  LET star == IndexOf(s, "*")
  IN SubSeq(s, 2, IF star = 0 THEN Len(s) ELSE star - 1)

CountOf(s, c) == Cardinality({j \in DOMAIN s : s[j] = c})

Returned == pc = "done"
Ended == pc \in {"done", "threw"}

\* the sentence a builder call has returned, <<>> when it has returned none
Emitted ==
  IF op = "rmb" /\ Returned /\ ret.k = "array" /\ Len(ret.a) >= 1 THEN ret.a[1]
  ELSE IF op = "apb" /\ Returned /\ ret.k = "string" THEN ret.s
  ELSE <<>>

---------------------------------------------------------------------------
(* C1 *)

\* C1: whatever fields toSentence is given, it returns '$' body '*' HH with HH
\* two upper-case hex digits equal to the XOR of the character codes between
\* the '$' and the '*' of the returned string; so does every sentence of RMB.
C1_ChecksumOfReturnedBody ==
  /\ (op = "toSentence" /\ Returned) => (ret.k = "string" /\ Checksummed(ret.s))
  /\ (op = "rmb" /\ Returned /\ ret.k = "array") =>
       (Len(ret.a) = 1 /\ Checksummed(ret.a[1]))

\* a three-field call, one field carrying a '*', returned a checksum other than 00
C1_Witness ==
  /\ op = "toSentence"
  /\ Returned
  /\ Len(arg.a) = 3
  /\ \E i \in 1..3 : IndexOf(arg.a[i], "*") > 0
  /\ SubSeq(ret.s, Len(ret.s) - 1, Len(ret.s)) # <<"0","0">>

---------------------------------------------------------------------------
(* C2 *)

IsDigits(s) == \A j \in DOMAIN s : s[j] \in Range(DigitChars)

\* w digits of degrees, MM.MMMM, a comma and one letter of hemispheres
CoordinateShape(s, w, hemispheres) ==
  /\ Len(s) = w + 9
  /\ IsDigits(SubSeq(s, 1, w + 2))
  /\ s[w + 3] = "."
  /\ IsDigits(SubSeq(s, w + 4, w + 7))
  /\ s[w + 8] = ","
  /\ s[w + 9] \in hemispheres

\* C2: an in-domain latitude comes back as DDMM.MMMM,N|S and an in-domain
\* longitude as DDDMM.MMMM,E|W, no digit lost: 45.5 gives 4530.0000,N, -45.5
\* gives 4530.0000,S and -122.25 gives 12215.0000,W.
C2_CoordinateFormat ==
  /\ (op = "toNmeaDegreesLatitude" /\ Returned) =>
       /\ CoordinateShape(ret.s, 2, {"N", "S"})
       /\ arg = Num(45 * DegDen + Half) =>
            ret.s = <<"4","5","3","0",".","0","0","0","0",",","N">>
       /\ arg = Num(-(45 * DegDen + Half)) =>
            ret.s = <<"4","5","3","0",".","0","0","0","0",",","S">>
  /\ (op = "toNmeaDegreesLongitude" /\ Returned) =>
       /\ CoordinateShape(ret.s, 3, {"E", "W"})
       /\ arg = Num(-(122 * DegDen + Quarter)) =>
            ret.s = <<"1","2","2","1","5",".","0","0","0","0",",","W">>

---------------------------------------------------------------------------
(* C3 *)

Absent(x) == x.k \in {"undefined", "null"}
NonFinite(x) == x.k \in {"NaN", "+Infinity", "-Infinity"}
Unusable(x) == Absent(x) \/ NonFinite(x)

ApbLacksMandatory(input) ==
  \/ Unusable(input.xte)
  \/ (Unusable(input.nextTrue) /\ Unusable(input.trackTrue))

RmbLacksMandatory(input) ==
  \/ Unusable(input.xte)
  \/ Absent(input.position)
  \/ Unusable(input.bearingTrue)

\* C3: a builder whose mandatory input is absent or non-finite raises nothing
\* and returns no sentence (null or undefined).
C3_NoSentenceWithoutMandatory ==
  /\ (op = "apb" /\ ApbLacksMandatory(arg)) => (pc # "threw" /\ ret \in {Undef, Null})
  /\ (op = "rmb" /\ RmbLacksMandatory(arg)) => (pc # "threw" /\ ret \in {Undef, Null})

---------------------------------------------------------------------------
(* C4 *)

ApbHasMandatory(input) ==
  /\ input.xte.k = "number"
  /\ (input.nextTrue.k = "number" \/ input.trackTrue.k = "number")

ApbExample ==
  <<"$","G","P","A","P","B",",","A",",","A",",","0",".","0","5","4",",","R",
    ",","N",",","9","0",".","0",",","T",",",",","9","0",".","0",",","T",",",
    ",","M",",","W","A","Y","P","O","I","N","T",",","A",",","A","*">>

\* C4: with a finite cross-track error and a finite true bearing the APB
\* builder raises nothing and returns one checksummed sentence of 16 fields;
\* 100 m, 90 degrees, no magnetic data and talker GP give
\* $GPAPB,A,A,0.054,R,N,90.0,T,,90.0,T,,M,WAYPOINT,A,A*hh.
C4_ApbSentence ==
  (op = "apb" /\ ApbHasMandatory(arg) /\ Ended) =>
     /\ pc = "done"
     /\ ret.k = "string"
     /\ Checksummed(ret.s)
     /\ Len(Split(BodyOf(ret.s), ",")) = 16
     /\ ( /\ arg.xte = Num(100)
          /\ arg.nextTrue = Num(QuarterTurn)
          /\ arg.nextMag = Undef
          /\ arg.variation = Undef
          /\ talker(env) = GP )
        => Take(ret.s, Len(ApbExample)) = ApbExample

---------------------------------------------------------------------------
(* C5 *)

\* C5: what the RMB builder returns, when not null, is an array of one string
\* '$' talker 'RMB', 13 comma-separated fields, '*' and two hex digits, also
\* when a waypoint name holds a ',' or a '*'.
C5_RmbShape ==
  (op = "rmb" /\ Returned /\ ret # Null) =>
     /\ ret.k = "array"
     /\ Len(ret.a) = 1
     /\ LET s == ret.a[1]
            star == IndexOf(s, "*")
        IN /\ star > 0
           /\ Len(s) = star + 2
           /\ s[star + 1] \in HexDigits
           /\ s[star + 2] \in HexDigits
           /\ Take(s, 6) \in { <<"$">> \o GP \o <<"R","M","B">>,
                               <<"$">> \o II \o <<"R","M","B">> }
           /\ CountOf(s, ",") = 13
           /\ Len(Split(BodyOf(s), ",")) = 14

---------------------------------------------------------------------------
(* C6 *)

SelectsII(e) ==
  e \in {Str(<<"I","I">>), Str(<<"i","i">>), Str(<<"I","i">>), Str(<<"i","I">>)}

---------------------------------------------------------------------------
(* C7 *)

\* C7: the latitude conversion fails exactly outside [-90, 90] and on a
\* non-finite input, the longitude conversion exactly outside [-180, 180) and
\* on a non-finite input, neither clamps; the RMB builder emits no sentence
\* for a destination out of domain.
C7_CoordinateDomain ==
  /\ (op = "toNmeaDegreesLatitude" /\ Ended) =>
       /\ (pc = "done") <=> (arg.k = "number" /\ arg.v >= -90 * DegDen
                                              /\ arg.v <= 90 * DegDen)
       /\ ret.k = (IF pc = "done" THEN "string" ELSE "throw")
  /\ (op = "toNmeaDegreesLongitude" /\ Ended) =>
       /\ (pc = "done") <=> (arg.k = "number" /\ arg.v >= -180 * DegDen
                                              /\ arg.v < 180 * DegDen)
       /\ ret.k = (IF pc = "done" THEN "string" ELSE "throw")
  /\ (op = "rmb" /\ arg.position # Undef) =>
       LET lat == arg.position.latitude
           lon == arg.position.longitude
           inDomain == /\ lat.k = "number" /\ lat.v >= -90 * DegDen
                       /\ lat.v <= 90 * DegDen
                       /\ lon.k = "number" /\ lon.v >= -180 * DegDen
                       /\ lon.v < 180 * DegDen
       IN ~inDomain => (pc = "done" /\ ret = Null)

\* longitude 180 itself was refused
C7_Witness ==
  /\ op = "toNmeaDegreesLongitude"
  /\ arg = Num(180 * DegDen)
  /\ pc = "threw"
  /\ ret.k = "throw"

---------------------------------------------------------------------------
(* C8 *)

\* C8: in every emitted sentence the steer letter is R exactly for a
\* cross-track error >= 0 and L exactly for one < 0, and the field before it
\* is |error| / 1852 with 3 decimals, without a minus sign.
C8_SteerDirection ==
  Emitted # <<>> =>
     LET f == Split(BodyOf(Emitted), ",")
         at == IF op = "apb" THEN 4 ELSE 3
         x == arg.xte
     IN /\ Len(f) > at
        /\ x.k = "number"
        /\ (f[at + 1] = <<"R">>) <=> (x.v >= 0)
        /\ (f[at + 1] = <<"L">>) <=> (x.v < 0)
        /\ f[at] = toFixedRatio(Abs(x.v), 1852, 3)
        /\ "-" \notin Range(f[at])

---------------------------------------------------------------------------
(* C9 *)

StripStar(f) == LET i == IndexOf(f, "*") IN IF i = 0 THEN f ELSE Take(f, i - 1)

\* C9: the body toSentence returns holds every field given, in order, comma
\* separated; of a field with a '*' only the '*' and what follows it in that
\* field are removed, the fields after it are kept.
C9_FieldsKept ==
  (op = "toSentence" /\ Returned) =>
     LET joined == Join([i \in DOMAIN arg.a |-> StripStar(arg.a[i])], <<",">>)
         expected == IF joined # <<>> /\ joined[1] = "$" THEN Drop(joined, 1) ELSE joined
     IN BodyOf(ret.s) = expected

---------------------------------------------------------------------------
(* C10 *)

\* C10: for every finite angle radToDeg360 returns, and what it returns is in
\* [0, 360) and congruent modulo 360 to the angle in degrees.
C10_RadToDeg360Total ==
  /\ [](  (op = "radToDeg360" /\ IsFinite(arg) /\ Returned) =>
            /\ ret.k = "number"
            /\ ret.v >= 0
            /\ ret.v < 360 * DegTenth
            /\ arg.k = "number" =>
                 (ret.v - (arg.v * 180 * DegTenth) \div RadDen) % (360 * DegTenth) = 0 )
  /\ ((op = "radToDeg360" /\ IsFinite(arg)) ~> Returned)

===========================================================================
